---- MODULE Spec2Model ----
\* Fitness-Web (src/app.py): the session gate, the recent-views tracker and the
\* blog/recipe content routes, as a state machine over the document store.
\*
\* One action per route handler. A handler runs from the gate to its response in
\* one step where requests are handled one at a time; in SpecRace two track-view
\* requests are in flight and a handler is one step per store call.
\* `req` is the request the last step served and `resp` the response it returned.
EXTENDS Integers, Sequences, FiniteSets, TLC

VARIABLES session, users, content, nextId, clock, recency, req, resp,
          groups, members, messages, workers

vars == <<session, users, content, nextId, clock, recency, req, resp,
          groups, members, messages, workers>>

\* The groups collection with its two subcollections, and the requests in
\* flight.
community == <<groups, members, messages>>

-----------------------------------------------------------------------------
\* Bounds of the model.

\* Server timestamps run from 1 to MaxClock.
MaxClock == 2

\* Number of documents the content collections ever hand an id to.
MaxContentId == 2

\* Largest view id a client of the track-view endpoint sends in SpecViews.
MaxViewId == 26

\* Number of groups ever created, and of messages a group's log ever holds.
MaxGroupId == 2

MaxMessages == 2

\* The limit of a recent-views list (app.py line 95).
MaxRecentViews == 50

-----------------------------------------------------------------------------
\* Values.

\* A key that is missing from a dict / a JSON body, or a None value.
Absent == "<absent>"

\* Ids are numbers. NoId: the id is missing (None); 0: a falsy id (0 or "").
NoId == -1

\* `not x` for a string of a request and for an id of a request.
Falsy(x) == x = Absent \/ x = ""

FalsyId(x) == x = NoId \/ x = 0

\* u1 registered as a user, a1 as an admin; x1 has an identity and no users
\* document.
Uids == {"u1", "a1", "x1"}

Kinds == {"blog", "recipe"}

\* A Firestore timestamp, the string isoformat() renders it to, and no value.
Timestamp(t) == [is |-> "timestamp", t |-> t]
IsoString(t) == [is |-> "str", t |-> t]
NoValue == [is |-> "absent", t |-> 0]

\* firestore.SERVER_TIMESTAMP as the store resolves it when the write commits.
SERVER_TIMESTAMP == Timestamp(clock)

\* The session dict: "uid" not in session  <=>  uid = Absent.
NoSession == [uid |-> Absent, role |-> Absent, email |-> Absent]

\* A users document. has_views: the document has a recent_views field.
NoUser ==
    [exists |-> FALSE, role |-> Absent, email |-> Absent,
     has_views |-> FALSE, recent_views |-> <<>>]

\* A blogs / recipes document.
NoDoc ==
    [exists |-> FALSE, title |-> Absent, shortDesc |-> Absent, content |-> Absent,
     status |-> Absent, date |-> Absent, image |-> Absent, author |-> Absent,
     authorId |-> Absent, createdAt |-> NoValue, updatedAt |-> NoValue]

\* firebase_auth.verify_id_token: the uid a token verifies to, Absent when the
\* identity service rejects it (the call raises).
verify_id_token(id_token) ==
    CASE id_token = "tok_u1" -> "u1"
      [] id_token = "tok_a1" -> "a1"
      [] id_token = "tok_x1" -> "x1"
      [] OTHER -> Absent

Tokens == {Absent, "", "bad", "tok_u1", "tok_a1", "tok_x1"}

-----------------------------------------------------------------------------
\* Requests and responses.

\* title: the title a track-view body carries; data: the JSON body of a
\* create or update of a blog or recipe (Absent keys for the other requests).
Request(handler, kind, id, token) ==
    [handler |-> handler, kind |-> kind, id |-> id, token |-> token,
     title |-> Absent,
     data |-> [title |-> Absent, shortDesc |-> Absent, content |-> Absent,
               status |-> Absent, date |-> Absent, image |-> Absent]]

\* status: the HTTP status; success / error: the JSON envelope; items: the
\* documents or view records the body carries; calls: the number of store
\* calls the handler made; tracked: what the tracker it invoked reported
\* ("none" when it invoked none).
Response(status, success, error, items, calls, tracked) ==
    [status |-> status, success |-> success, error |-> error, items |-> items,
     calls |-> calls, tracked |-> tracked]

Ok(items, calls) == Response(200, TRUE, "", items, calls, "none")

Error(status, error, calls) == Response(status, FALSE, error, <<>>, calls, "none")

-----------------------------------------------------------------------------
\* login_required (lines 44-57).

login_required_ignoring_role(sess, role) ==
    IF sess.uid = Absent THEN "redirect" ELSE "allow"

login_required(sess, role) ==
    IF sess.uid = Absent THEN "redirect"
    ELSE IF role # Absent /\ sess.role # role THEN "forbidden"
    ELSE "allow"

\* The role each route's @login_required decorator names; Absent for
\* @login_required(). The routes without the decorator are not listed.
RequiredRole_open_delete(handler) ==
    CASE handler = "dashboard" -> "user"
      [] handler \in {"admin_dashboard", "admin_content", "admin_recipes",
                      "get_admin_blogs", "create_blog", "update_blog",
                      "get_admin_recipes", "create_recipe", "update_recipe"} -> "admin"
      [] OTHER -> Absent

RequiredRole(handler) ==
    CASE handler = "dashboard" -> "user"
      [] handler \in {"admin_dashboard", "admin_content", "admin_recipes",
                      "get_admin_blogs", "create_blog", "update_blog", "delete_blog",
                      "get_admin_recipes", "create_recipe", "update_recipe",
                      "delete_recipe"} -> "admin"
      [] OTHER -> Absent

Gate(handler) == login_required(session, RequiredRole(handler))

\* The response of the wrapper when it does not call the handler.
Denied(gate) ==
    IF gate = "redirect" THEN Response(302, FALSE, "login", <<>>, 0, "none")
    ELSE Response(403, FALSE, "Unauthorized", <<>>, 0, "none")

-----------------------------------------------------------------------------
\* Recent views.

Url(prefix, id) == <<prefix, id>>

NoUrl == Url(Absent, NoId)

ViewKey(v) == <<v.type, v.id>>

\* The dict of a view record; a key the dict lacks is Absent / NoValue.
ViewRecord(type, id, title, description, image, url, viewedAt) ==
    [type |-> type, id |-> id, title |-> title, description |-> description,
     image |-> image, url |-> url, viewedAt |-> viewedAt]

\* v.get("id") == view_data["id"] and v.get("type") == view_data["type"]
SameView(v, type, id) == v.id = id /\ v.type = type

\* Lines 89-96 with one step wrong: the filter left out, the insert at the
\* end, the truncation left out.
tracked_views_without_dedup(current_views, view_data) ==
    LET inserted == <<view_data>> \o current_views
    IN  IF Len(inserted) > MaxRecentViews
        THEN SubSeq(inserted, 1, MaxRecentViews) ELSE inserted

tracked_views_appending(current_views, view_data) ==
    LET kept == SelectSeq(current_views,
                          LAMBDA v : ~SameView(v, view_data.type, view_data.id))
        inserted == kept \o <<view_data>>
    IN  IF Len(inserted) > MaxRecentViews
        THEN SubSeq(inserted, 1, MaxRecentViews) ELSE inserted

tracked_views_unbounded(current_views, view_data) ==
    LET kept == SelectSeq(current_views,
                          LAMBDA v : ~SameView(v, view_data.type, view_data.id))
    IN  <<view_data>> \o kept

\* Lines 89-96: the list track_user_view_internal writes back.
tracked_views(current_views, view_data) ==
    LET kept == SelectSeq(current_views,
                          LAMBDA v : ~SameView(v, view_data.type, view_data.id))
        inserted == <<view_data>> \o kept
    IN  IF Len(inserted) > MaxRecentViews
        THEN SubSeq(inserted, 1, MaxRecentViews) ELSE inserted

\* user_doc.to_dict().get("recent_views", [])
stored_views(user_doc) ==
    IF user_doc.has_views THEN user_doc.recent_views ELSE <<>>

\* A store call of the tracker may raise: at user_ref.get(), or at the
\* update / set that writes the list back.
StoreFaults == {"none", "get", "write"}

\* track_user_view_internal (lines 77-109): the users collection it leaves.
\* A call that raises leaves the collection as it was.
track_user_view_internal(view_data, uid, fault) ==
    IF fault # "none" THEN users
    ELSE IF users[uid].exists
    THEN [users EXCEPT ![uid].has_views = TRUE,
                       ![uid].recent_views =
                           tracked_views(stored_views(users[uid]), view_data)]
    ELSE [users EXCEPT ![uid] =
              [NoUser EXCEPT !.exists = TRUE, !.has_views = TRUE,
                             !.recent_views = <<view_data>>]]

\* Its return value: True, or False from the except clause (lines 105, 109).
track_result(fault) == IF fault = "none" THEN "true" ELSE "false"

\* Store calls the tracker makes: the get, then the write unless the get raised.
track_calls(fault) == IF fault = "get" THEN 1 ELSE 2

\* recency[u]: the keys recorded for u and not removed or cleared since, by
\* their last successful record call, most recent first (not part of the
\* program: the order the list is compared with).
RemoveKey(keys, k) == SelectSeq(keys, LAMBDA x : x # k)

recorded(view_data, uid, fault) ==
    IF fault # "none" THEN recency
    ELSE [recency EXCEPT ![uid] = <<ViewKey(view_data)>> \o RemoveKey(@, ViewKey(view_data))]

-----------------------------------------------------------------------------
\* Session login and logout.

\* Lines 146-149: the session a login that found the user document leaves.
login_session_without_default(uid, user_data) ==
    [uid |-> uid, role |-> user_data.role, email |-> user_data.email]

login_session(uid, user_data) ==
    [uid |-> uid,
     role |-> IF user_data.role = Absent THEN "user" ELSE user_data.role,
     email |-> user_data.email]

\* POST /sessionLogin (lines 125-156). id_token = Absent: no JSON body.
session_login(id_token) ==
    LET uid == verify_id_token(id_token) IN
    /\ req' = Request("session_login", Absent, NoId, id_token)
    /\ IF id_token = Absent
       THEN /\ resp' = Error(400, "No JSON data received", 0)
            /\ UNCHANGED session
       ELSE IF Falsy(id_token)
       THEN /\ resp' = Error(400, "No ID token provided", 0)
            /\ UNCHANGED session
       ELSE IF uid = Absent
       THEN /\ resp' = Error(400, "Token verification error", 0)
            /\ UNCHANGED session
       ELSE IF ~users[uid].exists
       THEN /\ resp' = Error(400, "User not found", 1)
            /\ UNCHANGED session
       ELSE /\ session' = login_session(uid, users[uid])
            /\ resp' = Ok(<<>>, 1)
    /\ UNCHANGED <<users, content, nextId, clock, recency, community, workers>>

\* GET /logout (lines 159-164): session.clear(), then the redirect to login;
\* first a variant without the session.clear().
logout_keeping_session ==
    /\ req' = Request("logout", Absent, NoId, Absent)
    /\ resp' = Response(302, TRUE, "login", <<>>, 0, "none")
    /\ UNCHANGED <<session, users, content, nextId, clock, recency, community, workers>>

logout ==
    /\ req' = Request("logout", Absent, NoId, Absent)
    /\ session' = NoSession
    /\ resp' = Response(302, TRUE, "login", <<>>, 0, "none")
    /\ UNCHANGED <<users, content, nextId, clock, recency, community, workers>>

-----------------------------------------------------------------------------
\* Recent-views routes.

\* The JSON body of a track-view request; a key it lacks is Absent / NoId.
TrackBody(type, id, title, description, image, url) ==
    [type |-> type, id |-> id, title |-> title, description |-> description,
     image |-> image, url |-> url]

\* `not data`: no body, or the empty object.
EmptyTrackBody(data) ==
    /\ data.type = Absent /\ data.id = NoId /\ data.title = Absent
    /\ data.description = Absent /\ data.image = Absent /\ data.url = NoUrl

\* data.get(key, "")
GetOrEmpty(x) == IF x = Absent THEN "" ELSE x

\* POST /api/user/track-view (lines 236-275).
track_user_view(data, fault) ==
    LET gate == Gate("track_user_view")
        uid == session.uid
        view_data == ViewRecord(data.type, data.id, data.title,
                                GetOrEmpty(data.description), GetOrEmpty(data.image),
                                data.url, SERVER_TIMESTAMP)
    IN
    /\ req' = [Request("track_user_view", data.type, data.id, Absent)
                   EXCEPT !.title = data.title]
    /\ IF gate # "allow"
       THEN /\ resp' = Denied(gate)
            /\ UNCHANGED <<users, recency>>
       ELSE IF EmptyTrackBody(data)
       THEN /\ resp' = Error(400, "No data provided", 0)
            /\ UNCHANGED <<users, recency>>
       ELSE IF data.type = Absent \/ data.id = NoId \/ data.title = Absent
               \/ data.url = NoUrl
       THEN /\ resp' = Error(400, "Missing required field", 0)
            /\ UNCHANGED <<users, recency>>
       ELSE /\ users' = track_user_view_internal(view_data, uid, fault)
            /\ recency' = recorded(view_data, uid, fault)
            /\ resp' = IF track_result(fault) = "true"
                       THEN Response(200, TRUE, "", <<>>, track_calls(fault), "true")
                       ELSE Response(200, FALSE, "Failed to track view", <<>>,
                                     track_calls(fault), "false")
    /\ UNCHANGED <<session, content, nextId, clock, community, workers>>

\* Lines 296-306: values that have isoformat become strings.
isoformat(value) == IF value.is = "timestamp" THEN IsoString(value.t) ELSE value

cleaned_view(view) == [view EXCEPT !.viewedAt = isoformat(@)]

cleaned_views(views) == [i \in 1..Len(views) |-> cleaned_view(views[i])]

\* The body of GET /api/user/recent-views for uid (lines 287-312).
recent_views_body(user_doc) ==
    IF ~user_doc.exists THEN <<>> ELSE cleaned_views(stored_views(user_doc))

\* GET /api/user/recent-views (lines 277-316).
get_user_recent_views ==
    LET gate == Gate("get_user_recent_views") IN
    /\ req' = Request("get_user_recent_views", Absent, NoId, Absent)
    /\ resp' = IF gate # "allow" THEN Denied(gate)
               ELSE Ok(recent_views_body(users[session.uid]), 1)
    /\ UNCHANGED <<session, users, content, nextId, clock, recency, community, workers>>

\* Lines 347-350: the list remove_recent_view writes back.
updated_views_either(recent_views, view_id, view_type) ==
    SelectSeq(recent_views, LAMBDA view : ~(view.id = view_id \/ view.type = view_type))

updated_views(recent_views, view_id, view_type) ==
    SelectSeq(recent_views, LAMBDA view : ~SameView(view, view_type, view_id))

\* POST /api/user/remove-recent-view (lines 319-361). view_id = NoId and
\* view_type = Absent: data.get() found no such key; both: `not data`.
remove_recent_view(view_id, view_type) ==
    LET gate == Gate("remove_recent_view")
        uid == session.uid
    IN
    /\ req' = Request("remove_recent_view", view_type, view_id, Absent)
    /\ IF gate # "allow"
       THEN /\ resp' = Denied(gate)
            /\ UNCHANGED <<users, recency>>
       ELSE IF view_id = NoId /\ view_type = Absent
       THEN /\ resp' = Error(400, "No data provided", 0)
            /\ UNCHANGED <<users, recency>>
       ELSE IF FalsyId(view_id) \/ Falsy(view_type)
       THEN /\ resp' = Error(400, "Missing viewId or viewType", 0)
            /\ UNCHANGED <<users, recency>>
       ELSE IF users[uid].exists
       THEN /\ users' = [users EXCEPT
                            ![uid].has_views = TRUE,
                            ![uid].recent_views =
                                updated_views(stored_views(users[uid]), view_id, view_type)]
            /\ recency' = [recency EXCEPT ![uid] = RemoveKey(@, <<view_type, view_id>>)]
            /\ resp' = Ok(<<>>, 2)
       ELSE /\ resp' = Error(404, "User not found", 1)
            /\ UNCHANGED <<users, recency>>
    /\ UNCHANGED <<session, content, nextId, clock, community, workers>>

\* POST /api/user/clear-recent-views (lines 363-382). user_ref.update() raises
\* NotFound for a document that does not exist; the except clause answers 500.
clear_recent_views ==
    LET gate == Gate("clear_recent_views")
        uid == session.uid
    IN
    /\ req' = Request("clear_recent_views", Absent, NoId, Absent)
    /\ IF gate # "allow"
       THEN /\ resp' = Denied(gate)
            /\ UNCHANGED <<users, recency>>
       ELSE IF users[uid].exists
       THEN /\ users' = [users EXCEPT ![uid].has_views = TRUE,
                                       ![uid].recent_views = <<>>]
            /\ recency' = [recency EXCEPT ![uid] = <<>>]
            /\ resp' = Ok(<<>>, 1)
       ELSE /\ resp' = Error(500, "NotFound", 1)
            /\ UNCHANGED <<users, recency>>
    /\ UNCHANGED <<session, content, nextId, clock, community, workers>>

-----------------------------------------------------------------------------
\* Recent-views requests in flight. The server handles requests concurrently
\* and track_user_view_internal reads the list (line 84) and writes it back
\* (line 99 or 102) in two store calls with nothing to hold the document in
\* between, as does remove_recent_view (lines 340 and 353): a request is at
\* "idle" before it arrives, at "read" between the two calls and at "done"
\* once it has written and answered. clear_recent_views makes one store call.

Workers == {"w1", "w2"}

NoView == ViewRecord(Absent, NoId, Absent, Absent, Absent, NoUrl, NoValue)

\* op: "record" in track_user_view, "remove" in remove_recent_view; uid,
\* view_data: the arguments of track_user_view_internal (for a remove, the
\* view_type and view_id); exists, current_views: what user_ref.get()
\* returned; result: the return value.
Idle ==
    [pc |-> "idle", op |-> "none", uid |-> Absent, view_data |-> NoView,
     exists |-> FALSE, current_views |-> <<>>, result |-> "none"]

\* Lines 236-266 and 81-86: the route up to the read of the users document.
track_get(w, data) ==
    LET gate == Gate("track_user_view")
        uid == session.uid
        view_data == ViewRecord(data.type, data.id, data.title,
                                GetOrEmpty(data.description), GetOrEmpty(data.image),
                                data.url, SERVER_TIMESTAMP)
    IN
    /\ workers[w].pc = "idle"
    /\ req' = [Request("track_user_view", data.type, data.id, Absent)
                   EXCEPT !.title = data.title]
    /\ IF gate # "allow"
       THEN /\ resp' = Denied(gate)
            /\ UNCHANGED workers
       ELSE IF EmptyTrackBody(data)
       THEN /\ resp' = Error(400, "No data provided", 0)
            /\ UNCHANGED workers
       ELSE IF data.type = Absent \/ data.id = NoId \/ data.title = Absent
               \/ data.url = NoUrl
       THEN /\ resp' = Error(400, "Missing required field", 0)
            /\ UNCHANGED workers
       ELSE /\ workers' = [workers EXCEPT ![w] =
                               [pc |-> "read", op |-> "record", uid |-> uid,
                                view_data |-> view_data,
                                exists |-> users[uid].exists,
                                current_views |-> stored_views(users[uid]),
                                result |-> "none"]]
            /\ resp' = Response(0, TRUE, "", <<>>, 1, "none")
    /\ UNCHANGED <<session, users, content, nextId, clock, recency, community>>

\* Lines 89-96 in a request that read current_views while the document now
\* holds stored: the list it writes; first a variant that reads again, and one
\* that keeps the entries stored since its read behind its own list.
written_views_rereading(current_views, stored, view_data) == tracked_views(stored, view_data)

written_views_merging(current_views, stored, view_data) ==
    tracked_views(current_views, view_data)
        \o SelectSeq(stored, LAMBDA s : \A i \in 1..Len(current_views) :
                                            ViewKey(current_views[i]) # ViewKey(s))

written_views(current_views, stored, view_data) == tracked_views(current_views, view_data)

\* Lines 89-109 and 268-271: the write and the response. update() raises
\* NotFound when the document has gone since the read; set() replaces the
\* document.
track_write(w) ==
    LET worker == workers[w]
        uid == worker.uid
        raised == worker.exists /\ ~users[uid].exists
    IN
    /\ worker.pc = "read"
    /\ worker.op = "record"
    /\ req' = [Request("track_user_view", worker.view_data.type, worker.view_data.id, Absent)
                   EXCEPT !.title = worker.view_data.title]
    /\ IF raised
       THEN /\ UNCHANGED <<users, recency>>
            /\ resp' = Response(200, FALSE, "Failed to track view", <<>>, 2, "false")
       ELSE /\ users' =
                   IF worker.exists
                   THEN [users EXCEPT
                            ![uid].has_views = TRUE,
                            ![uid].recent_views =
                                written_views(worker.current_views,
                                              stored_views(users[uid]), worker.view_data)]
                   ELSE [users EXCEPT ![uid] =
                            [NoUser EXCEPT !.exists = TRUE, !.has_views = TRUE,
                                           !.recent_views = <<worker.view_data>>]]
            /\ recency' = recorded(worker.view_data, uid, "none")
            /\ resp' = Response(200, TRUE, "", <<>>, 2, "true")
    /\ workers' = [workers EXCEPT ![w].pc = "done",
                                  ![w].result = IF raised THEN "false" ELSE "true"]
    /\ UNCHANGED <<session, content, nextId, clock, community>>

\* Lines 319-344: remove_recent_view up to the read of the users document.
remove_get(w, view_id, view_type) ==
    LET gate == Gate("remove_recent_view")
        uid == session.uid
    IN
    /\ workers[w].pc = "idle"
    /\ req' = Request("remove_recent_view", view_type, view_id, Absent)
    /\ IF gate # "allow"
       THEN /\ resp' = Denied(gate)
            /\ UNCHANGED workers
       ELSE IF view_id = NoId /\ view_type = Absent
       THEN /\ resp' = Error(400, "No data provided", 0)
            /\ UNCHANGED workers
       ELSE IF FalsyId(view_id) \/ Falsy(view_type)
       THEN /\ resp' = Error(400, "Missing viewId or viewType", 0)
            /\ UNCHANGED workers
       ELSE IF ~users[uid].exists
       THEN /\ resp' = Error(404, "User not found", 1)
            /\ UNCHANGED workers
       ELSE /\ workers' = [workers EXCEPT ![w] =
                               [pc |-> "read", op |-> "remove", uid |-> uid,
                                view_data |-> [NoView EXCEPT !.type = view_type,
                                                             !.id = view_id],
                                exists |-> TRUE,
                                current_views |-> stored_views(users[uid]),
                                result |-> "none"]]
            /\ resp' = Response(0, TRUE, "", <<>>, 1, "none")
    /\ UNCHANGED <<session, users, content, nextId, clock, recency, community>>

\* Lines 347-361: the filter, the write and the response. update() raises
\* NotFound when the document has gone since the read.
remove_write(w) ==
    LET worker == workers[w]
        uid == worker.uid
        raised == ~users[uid].exists
    IN
    /\ worker.pc = "read"
    /\ worker.op = "remove"
    /\ req' = Request("remove_recent_view", worker.view_data.type, worker.view_data.id,
                      Absent)
    /\ IF raised
       THEN /\ UNCHANGED <<users, recency>>
            /\ resp' = Error(500, "NotFound", 2)
       ELSE /\ users' = [users EXCEPT
                            ![uid].has_views = TRUE,
                            ![uid].recent_views =
                                updated_views(worker.current_views, worker.view_data.id,
                                              worker.view_data.type)]
            /\ recency' = [recency EXCEPT ![uid] = RemoveKey(@, ViewKey(worker.view_data))]
            /\ resp' = Ok(<<>>, 2)
    /\ workers' = [workers EXCEPT ![w].pc = "done",
                                  ![w].result = IF raised THEN "false" ELSE "true"]
    /\ UNCHANGED <<session, content, nextId, clock, community>>

\* The response has left the server.
track_return(w) ==
    /\ workers[w].pc = "done"
    /\ workers' = [workers EXCEPT ![w] = Idle]
    /\ UNCHANGED <<session, users, content, nextId, clock, recency, req, resp, community>>

-----------------------------------------------------------------------------
\* Blogs and recipes. The two kinds have the same routes; each definition
\* below takes the kind, and names the lines of the blog routes and of the
\* recipe routes it models.

ContentIds == 1..MaxContentId

\* clean_firestore_data (lines 60-74) on a content document: timestamps become
\* isoformat strings.
clean_firestore_data(doc) ==
    [doc EXCEPT !.createdAt = isoformat(@), !.updatedAt = isoformat(@)]

\* An entry of a response: blog_data with blog_data["id"] = blog.id.
Item(kind, id, doc) == [kind |-> kind, id |-> id, data |-> clean_firestore_data(doc)]

\* x.get("createdAt", "") of two cleaned documents, as the strings compare.
CreatedAtKey(item) == item.data.createdAt.t

\* list.sort(key=..., reverse=True) of items in stream order: descending key,
\* items of equal key in the order they had.
RECURSIVE sort_reverse(_)
sort_reverse(items) ==
    IF items = <<>> THEN <<>>
    ELSE LET first == CHOOSE i \in 1..Len(items) :
                          /\ \A j \in 1..Len(items) :
                                 CreatedAtKey(items[j]) <= CreatedAtKey(items[i])
                          /\ \A j \in 1..(i - 1) :
                                 CreatedAtKey(items[j]) < CreatedAtKey(items[i])
             rest == [j \in 1..(Len(items) - 1) |->
                         IF j < first THEN items[j] ELSE items[j + 1]]
         IN  <<items[first]>> \o sort_reverse(rest)

\* The documents of a collection a query streams, in document-id order.
\* only_published: the query is .where("status", "==", "published").
RECURSIVE stream_from(_, _, _)
stream_from(kind, only_published, id) ==
    IF id > MaxContentId THEN <<>>
    ELSE LET doc == content[kind][id]
             hit == doc.exists /\ (only_published => doc.status = "published")
         IN  (IF hit THEN <<Item(kind, id, doc)>> ELSE <<>>)
             \o stream_from(kind, only_published, id + 1)

stream_unfiltered(kind, only_published) == stream_from(kind, FALSE, 1)

stream(kind, only_published) == stream_from(kind, only_published, 1)

\* GET /api/blogs (lines 392-411), GET /api/recipes (lines 556-575).
get_published(kind) ==
    /\ req' = Request(IF kind = "blog" THEN "get_blogs" ELSE "get_recipes",
                      kind, NoId, Absent)
    /\ resp' = Ok(sort_reverse(stream(kind, TRUE)), 1)
    /\ UNCHANGED <<session, users, content, nextId, clock, recency, community, workers>>

\* GET /api/admin/blogs (lines 451-470), GET /api/admin/recipes (615-634).
get_admin(kind) ==
    LET handler == IF kind = "blog" THEN "get_admin_blogs" ELSE "get_admin_recipes"
        gate == Gate(handler)
    IN
    /\ req' = Request(handler, kind, NoId, Absent)
    /\ resp' = IF gate # "allow" THEN Denied(gate)
               ELSE Ok(sort_reverse(stream(kind, FALSE)), 1)
    /\ UNCHANGED <<session, users, content, nextId, clock, recency, community, workers>>

\* Lines 430-437 / 594-601: the view record of a content read. It has no
\* viewedAt key.
content_view_always_blog(kind, id, blog_data) ==
    ViewRecord("blog", id, blog_data.title, blog_data.shortDesc, blog_data.image,
               Url("blog", id), NoValue)

content_view(kind, id, blog_data) ==
    ViewRecord(kind, id, blog_data.title, blog_data.shortDesc, blog_data.image,
               Url(kind, id), NoValue)

\* Lines 445 / 609: the response of a read that found the document, whatever
\* the tracker returned.
single_response_failing(kind, id, doc, tracked, calls) ==
    IF tracked = "false" THEN Response(500, FALSE, "tracking failed", <<>>, calls, tracked)
    ELSE Response(200, TRUE, "", <<Item(kind, id, doc)>>, calls, tracked)

single_response(kind, id, doc, tracked, calls) ==
    Response(200, TRUE, "", <<Item(kind, id, doc)>>, calls, tracked)

\* Lines 420 / 584: the read answers 404 only when the document is absent.
single_hidden(doc) == ~doc.exists

\* GET /api/blog/<id> (lines 413-449), GET /api/recipe/<id> (lines 577-613).
get_single(kind, id, fault) ==
    LET doc == content[kind][id]
        view_data == content_view(kind, id, clean_firestore_data(doc))
    IN
    /\ req' = Request(IF kind = "blog" THEN "get_single_blog" ELSE "get_single_recipe",
                      kind, id, Absent)
    /\ IF single_hidden(doc)
       THEN /\ resp' = Error(404, "not found", 1)
            /\ UNCHANGED <<users, recency>>
       ELSE IF session.uid # Absent
       THEN /\ users' = track_user_view_internal(view_data, session.uid, fault)
            /\ recency' = recorded(view_data, session.uid, fault)
            /\ resp' = single_response(kind, id, doc, track_result(fault),
                                       1 + track_calls(fault))
       ELSE /\ resp' = single_response(kind, id, doc, "none", 1)
            /\ UNCHANGED <<users, recency>>
    /\ UNCHANGED <<session, content, nextId, clock, community, workers>>

\* The JSON body of a create or update request; a key it lacks is Absent.
ContentBody(title, shortDesc, body, status, date, image) ==
    [title |-> title, shortDesc |-> shortDesc, content |-> body, status |-> status,
     date |-> date, image |-> image]

EmptyContentBody(data) ==
    /\ data.title = Absent /\ data.shortDesc = Absent /\ data.content = Absent
    /\ data.status = Absent /\ data.date = Absent /\ data.image = Absent

\* data.get(key, default)
GetOr(x, default) == IF x = Absent THEN default ELSE x

\* Lines 486-497 / 667-685: the document create writes.
new_document(data) ==
    [exists |-> TRUE, title |-> data.title, shortDesc |-> data.shortDesc,
     content |-> data.content, status |-> data.status,
     date |-> GetOr(data.date, "today"), image |-> GetOr(data.image, "placeholder"),
     author |-> session.email, authorId |-> session.uid,
     createdAt |-> SERVER_TIMESTAMP, updatedAt |-> SERVER_TIMESTAMP]

\* Lines 481-484 / 645-648: `field not in data or not data[field]` for one
\* of the required fields; first a variant whose list lacks "content".
missing_required_field_but_content(data) ==
    Falsy(data.title) \/ Falsy(data.shortDesc) \/ Falsy(data.status)

missing_required_field(data) ==
    Falsy(data.title) \/ Falsy(data.shortDesc) \/ Falsy(data.content)
        \/ Falsy(data.status)

\* POST /api/admin/blogs (lines 472-510), POST /api/admin/recipes (636-698).
\* .document() hands out an id no document had before.
create(kind, data) ==
    LET handler == IF kind = "blog" THEN "create_blog" ELSE "create_recipe"
        gate == Gate(handler)
    IN
    /\ req' = [Request(handler, kind, NoId, Absent) EXCEPT !.data = data]
    /\ IF gate # "allow"
       THEN /\ resp' = Denied(gate)
            /\ UNCHANGED <<content, nextId>>
       ELSE IF EmptyContentBody(data)
       THEN /\ resp' = Error(400, "No data provided", 0)
            /\ UNCHANGED <<content, nextId>>
       ELSE IF missing_required_field(data)
       THEN /\ resp' = Error(400, "Missing required field", 0)
            /\ UNCHANGED <<content, nextId>>
       ELSE /\ nextId <= MaxContentId
            /\ content' = [content EXCEPT ![kind][nextId] = new_document(data)]
            /\ nextId' = nextId + 1
            /\ resp' = Ok(<<Item(kind, nextId, new_document(data))>>, 1)
    /\ UNCHANGED <<session, users, clock, recency, community, workers>>

\* Lines 525-528 / 714-719: the document update leaves; first a variant that
\* writes the body's fields as a whole document.
updated_document_replacing(doc, data) ==
    [doc EXCEPT !.updatedAt = SERVER_TIMESTAMP,
                !.title = data.title, !.shortDesc = data.shortDesc,
                !.content = data.content, !.status = data.status,
                !.date = data.date, !.image = data.image]

updated_document(doc, data) ==
    [doc EXCEPT !.updatedAt = SERVER_TIMESTAMP,
                !.title = GetOr(data.title, @),
                !.shortDesc = GetOr(data.shortDesc, @),
                !.content = GetOr(data.content, @),
                !.status = GetOr(data.status, @),
                !.date = GetOr(data.date, @),
                !.image = GetOr(data.image, @)]

\* PUT /api/admin/blogs/<id> (lines 512-536), PUT /api/admin/recipes/<id>
\* (lines 700-754).
update(kind, id, data) ==
    LET handler == IF kind = "blog" THEN "update_blog" ELSE "update_recipe"
        gate == Gate(handler)
    IN
    /\ req' = [Request(handler, kind, id, Absent) EXCEPT !.data = data]
    /\ IF gate # "allow"
       THEN /\ resp' = Denied(gate)
            /\ UNCHANGED content
       ELSE IF EmptyContentBody(data)
       THEN /\ resp' = Error(400, "No data provided", 0)
            /\ UNCHANGED content
       ELSE IF ~content[kind][id].exists
       THEN /\ resp' = Error(404, "not found", 1)
            /\ UNCHANGED content
       ELSE /\ content' = [content EXCEPT
                              ![kind][id] = updated_document(content[kind][id], data)]
            /\ resp' = Ok(<<>>, 2)
    /\ UNCHANGED <<session, users, nextId, clock, recency, community, workers>>

\* DELETE /api/admin/blogs/<id> (lines 538-553), DELETE
\* /api/admin/recipes/<id> (lines 756-771).
delete(kind, id) ==
    LET handler == IF kind = "blog" THEN "delete_blog" ELSE "delete_recipe"
        gate == Gate(handler)
    IN
    /\ req' = Request(handler, kind, id, Absent)
    /\ IF gate # "allow"
       THEN /\ resp' = Denied(gate)
            /\ UNCHANGED content
       ELSE IF ~content[kind][id].exists
       THEN /\ resp' = Error(404, "not found", 1)
            /\ UNCHANGED content
       ELSE /\ content' = [content EXCEPT ![kind][id] = NoDoc]
            /\ resp' = Ok(<<>>, 2)
    /\ UNCHANGED <<session, users, nextId, clock, recency, community, workers>>

-----------------------------------------------------------------------------
\* Groups (lines 774-990). groups[g] is the document groups/g, members[g][u]
\* the document groups/g/members/u, messages[g] the documents of
\* groups/g/messages in the order they were added.

GroupIds == 1..MaxGroupId

NoGroup ==
    [exists |-> FALSE, name |-> Absent, description |-> Absent, category |-> Absent,
     image |-> Absent, createdBy |-> Absent, createdByEmail |-> Absent,
     createdAt |-> NoValue]

NoMember == [exists |-> FALSE, userId |-> Absent, userEmail |-> Absent, joinedAt |-> NoValue]

\* len(list(members_ref.stream())) and len(list(messages_ref.stream()))
member_count(group_id) == Cardinality({u \in Uids : members[group_id][u].exists})

message_count(group_id) == Len(messages[group_id])

\* The JSON body of a create-group request; a key it lacks is Absent.
GroupBody(name, description, category, image) ==
    [name |-> name, description |-> description, category |-> category, image |-> image]

EmptyGroupBody(data) ==
    /\ data.name = Absent /\ data.description = Absent /\ data.category = Absent
    /\ data.image = Absent

\* Lines 818-826: the group document.
group_data(data) ==
    [exists |-> TRUE, name |-> data.name, description |-> data.description,
     category |-> data.category, image |-> GetOr(data.image, "placeholder"),
     createdBy |-> session.uid, createdByEmail |-> session.email,
     createdAt |-> SERVER_TIMESTAMP]

\* Lines 831-835 / 890-894: the member document of the session's user.
member_data ==
    [exists |-> TRUE, userId |-> session.uid, userEmail |-> session.email,
     joinedAt |-> SERVER_TIMESTAMP]

\* db.collection("groups").document(): an id no group has (groups are never
\* deleted, so the ids in use are 1..n).
new_group_id == Cardinality({g \in GroupIds : groups[g].exists}) + 1

\* A store call of create_group may raise: group_ref.set(), or members_ref.set()
\* after the group was written.
GroupFaults == {"none", "group_write", "member_write"}

\* POST /api/groups (lines 802-840).
create_group(data, fault) ==
    LET gate == Gate("create_group")
        id == new_group_id
    IN
    /\ req' = Request("create_group", Absent, NoId, Absent)
    /\ IF gate # "allow"
       THEN /\ resp' = Denied(gate)
            /\ UNCHANGED <<groups, members>>
       ELSE IF EmptyGroupBody(data)
       THEN /\ resp' = Error(400, "No data provided", 0)
            /\ UNCHANGED <<groups, members>>
       ELSE IF Falsy(data.name) \/ Falsy(data.description) \/ Falsy(data.category)
       THEN /\ resp' = Error(400, "Missing required field", 0)
            /\ UNCHANGED <<groups, members>>
       ELSE /\ id <= MaxGroupId
            /\ IF fault = "group_write"
               THEN /\ resp' = Error(500, "store error", 1)
                    /\ UNCHANGED <<groups, members>>
               ELSE IF fault = "member_write"
               THEN /\ groups' = [groups EXCEPT ![id] = group_data(data)]
                    /\ resp' = Error(500, "store error", 2)
                    /\ UNCHANGED members
               ELSE /\ groups' = [groups EXCEPT ![id] = group_data(data)]
                    /\ members' = [members EXCEPT ![id][session.uid] = member_data]
                    /\ resp' = Response(201, TRUE, "", <<>>, 2, "none")
    /\ UNCHANGED <<session, users, content, nextId, clock, recency, messages, workers>>

\* GET /api/groups/<group_id> (lines 842-869); an entry of GET /api/groups
\* (774-800) carries the same counts.
get_group(group_id) ==
    LET gate == Gate("get_group") IN
    /\ req' = Request("get_group", Absent, group_id, Absent)
    /\ resp' = IF gate # "allow" THEN Denied(gate)
               ELSE IF ~groups[group_id].exists THEN Error(404, "Group not found", 1)
               ELSE Ok(<<[id |-> group_id,
                          memberCount |-> member_count(group_id),
                          messagesCount |-> message_count(group_id)]>>, 3)
    /\ UNCHANGED <<session, users, content, nextId, clock, recency, community, workers>>

\* Lines 890-894: the members subcollection after member_ref.set(); first a
\* variant that writes a second member document as well.
joined_members_twice(group_id, uid) ==
    [members EXCEPT ![group_id][uid] = member_data,
                    ![group_id]["x1"] = [member_data EXCEPT !.userId = "x1"]]

joined_members(group_id, uid) == [members EXCEPT ![group_id][uid] = member_data]

\* POST /api/groups/<group_id>/join (lines 871-899).
join_group(group_id) ==
    LET gate == Gate("join_group")
        uid == session.uid
    IN
    /\ req' = Request("join_group", Absent, group_id, Absent)
    /\ IF gate # "allow"
       THEN /\ resp' = Denied(gate)
            /\ UNCHANGED members
       ELSE IF ~groups[group_id].exists
       THEN /\ resp' = Error(404, "Group not found", 1)
            /\ UNCHANGED members
       ELSE IF members[group_id][uid].exists
       THEN /\ resp' = Error(400, "Already a member", 2)
            /\ UNCHANGED members
       ELSE /\ members' = joined_members(group_id, uid)
            /\ resp' = Ok(<<>>, 3)
    /\ UNCHANGED <<session, users, content, nextId, clock, recency, groups, messages,
                   workers>>

\* str.strip() on the message contents the clients send.
strip(text) ==
    CASE text = "  " -> ""
      [] text = " hi " -> "hi"
      [] OTHER -> text

\* Lines 947-953: the message document.
message_data(text) ==
    [user |-> session.email, userId |-> session.uid, content |-> strip(text),
     timestamp |-> SERVER_TIMESTAMP, avatar |-> "placeholder"]

\* Line 938: the membership probe of send_message.
not_a_member_never(group_id, uid) == FALSE

not_a_member(group_id, uid) == ~members[group_id][uid].exists

\* POST /api/groups/<group_id>/messages (lines 929-958). text = Absent: no
\* body, or a body without "content".
send_message(group_id, text) ==
    LET gate == Gate("send_message")
        uid == session.uid
    IN
    /\ req' = Request("send_message", Absent, group_id, Absent)
    /\ IF gate # "allow"
       THEN /\ resp' = Denied(gate)
            /\ UNCHANGED messages
       ELSE IF not_a_member(group_id, uid)
       THEN /\ resp' = Error(403, "Not a member of this group", 1)
            /\ UNCHANGED messages
       ELSE IF text = Absent \/ strip(text) = ""
       THEN /\ resp' = Error(400, "Message content required", 1)
            /\ UNCHANGED messages
       ELSE /\ Len(messages[group_id]) < MaxMessages
            /\ messages' = [messages EXCEPT ![group_id] = Append(@, message_data(text))]
            /\ resp' = Response(201, TRUE, "", <<>>, 2, "none")
    /\ UNCHANGED <<session, users, content, nextId, clock, recency, groups, members,
                   workers>>

-----------------------------------------------------------------------------
\* Pages and the user-data routes.

\* The routes that only render a template under the gate: /dashboard (lines
\* 167-170) for role "user", /admin (173-176) for role "admin" as are
\* /admin/content and /admin/recipes (1102-1110), and /menu (1026-1029) for
\* any role as are /recent (385-389) and the pages of lines 1031-1099.
PageHandlers == {"dashboard", "admin_dashboard", "menu"}

page(handler) ==
    LET gate == Gate(handler) IN
    /\ req' = Request(handler, Absent, NoId, Absent)
    /\ resp' = IF gate # "allow" THEN Denied(gate) ELSE Ok(<<>>, 0)
    /\ UNCHANGED <<session, users, content, nextId, clock, recency, community, workers>>

\* GET /api/user_data (lines 179-200); /profile (203-233) and
\* /api/debug/user-data (993-1022) read the same document.
get_user_data ==
    LET gate == Gate("get_user_data") IN
    /\ req' = Request("get_user_data", Absent, NoId, Absent)
    /\ resp' = IF gate # "allow" THEN Denied(gate)
               ELSE IF users[session.uid].exists
               THEN Ok(recent_views_body(users[session.uid]), 1)
               ELSE Error(404, "User data not found", 1)
    /\ UNCHANGED <<session, users, content, nextId, clock, recency, community, workers>>

-----------------------------------------------------------------------------
\* The world outside the server.

\* Time passes: later writes get a later server timestamp.
Tick ==
    /\ clock < MaxClock
    /\ clock' = clock + 1
    /\ req' = Request("none", Absent, NoId, Absent)
    /\ resp' = Response(0, TRUE, "", <<>>, 0, "none")
    /\ UNCHANGED <<session, users, content, nextId, recency, community, workers>>

\* A users document is deleted out of band (the store is shared with the
\* registration client and the console); the session cookie stays. The
\* handlers' `user_doc.exists` branches (lines 100-102, 290-291, 356-357)
\* serve this state.
user_document_deleted(uid) ==
    /\ users[uid].exists
    /\ users' = [users EXCEPT ![uid] = NoUser]
    /\ recency' = [recency EXCEPT ![uid] = <<>>]
    /\ req' = Request("none", Absent, NoId, Absent)
    /\ resp' = Response(0, TRUE, "", <<>>, 0, "none")
    /\ UNCHANGED <<session, content, nextId, clock, community, workers>>

-----------------------------------------------------------------------------
\* The state when the server starts: no session; the users collection holds
\* the documents registration wrote; no content yet.

Init ==
    /\ session = NoSession
    /\ users = [u \in Uids |->
                  IF u = "x1" THEN NoUser
                  ELSE [NoUser EXCEPT !.exists = TRUE,
                                      !.role = IF u = "a1" THEN "admin" ELSE "user",
                                      !.email = IF u = "a1" THEN "a1@x" ELSE "u1@x"]]
    /\ content = [k \in Kinds |-> [i \in 1..MaxContentId |-> NoDoc]]
    /\ nextId = 1
    /\ clock = 1
    /\ recency = [u \in Uids |-> <<>>]
    /\ req = Request("none", Absent, NoId, Absent)
    /\ resp = Response(0, TRUE, "", <<>>, 0, "none")
    /\ groups = [g \in GroupIds |-> NoGroup]
    /\ members = [g \in GroupIds |-> [u \in Uids |-> NoMember]]
    /\ messages = [g \in GroupIds |-> <<>>]
    /\ workers = [w \in Workers |-> Idle]

-----------------------------------------------------------------------------
\* SpecViews: one user records, removes, clears and lists views, one request
\* at a time. A track-view request names the key after the largest one in the
\* list (blog 1, recipe 1, blog 2, recipe 2, ...) under the title "t1", or
\* blog 1 again, while it is in the list, under the title it does not have
\* there.

\* The rank of a key in that enumeration.
KeyRank(type, id) == 2 * id + (IF type = "recipe" THEN 1 ELSE 0)

MaxListedRank(views) ==
    IF views = <<>> THEN 1
    ELSE CHOOSE m \in {KeyRank(views[i].type, views[i].id) : i \in 1..Len(views)} :
             \A i \in 1..Len(views) : KeyRank(views[i].type, views[i].id) <= m

FreshRank == MaxListedRank(stored_views(users["u1"])) + 1

FreshType == IF FreshRank % 2 = 1 THEN "recipe" ELSE "blog"

FreshId == FreshRank \div 2

OtherTitle(title) == IF title = "t1" THEN "t2" ELSE "t1"

ViewsTrackBodies ==
    {TrackBody(FreshType, FreshId, "t1", Absent, Absent, Url(FreshType, FreshId)) :
        x \in IF FreshId <= MaxViewId THEN {1} ELSE {}}
    \cup {TrackBody("blog", 1, OtherTitle(stored_views(users["u1"])[i].title),
                    Absent, Absent, Url("blog", 1)) :
             i \in {j \in 1..Len(stored_views(users["u1"])) :
                       ViewKey(stored_views(users["u1"])[j]) = <<"blog", 1>>}}

ViewsRemoveKeys == {<<1, "blog">>, <<1, "recipe">>}

NextViews ==
    \/ session_login("tok_u1")
    \/ \E data \in ViewsTrackBodies : track_user_view(data, "none")
    \/ \E k \in ViewsRemoveKeys : remove_recent_view(k[1], k[2])
    \/ clear_recent_views
    \/ get_user_recent_views

SpecViews == Init /\ [][NextViews]_vars

-----------------------------------------------------------------------------
\* Spec: every route behind the gate, with login and logout, driven by one
\* browser from the start of the server. The clock stands still.

CreateBodies ==
    {ContentBody("t1", "s", "c", status, Absent, Absent) : status \in {"draft", "published"}}
    \cup {ContentBody("t1", "s", Absent, "published", Absent, Absent),
          ContentBody("", "s", "c", "draft", Absent, Absent),
          ContentBody(Absent, Absent, Absent, Absent, Absent, Absent)}

UpdateBodies ==
    {ContentBody(Absent, Absent, Absent, "published", Absent, Absent),
     ContentBody(Absent, Absent, Absent, "draft", Absent, Absent),
     ContentBody(Absent, Absent, Absent, Absent, Absent, Absent)}

GateTrackBodies ==
    {TrackBody("blog", 1, "t1", Absent, Absent, Url("blog", 1)),
     TrackBody("blog", 1, Absent, Absent, Absent, Url("blog", 1))}

Next ==
    \/ \E id_token \in Tokens : session_login(id_token)
    \/ logout
    \/ \E handler \in PageHandlers : page(handler)
    \/ get_user_data
    \/ \E data \in GateTrackBodies : track_user_view(data, "none")
    \/ get_user_recent_views
    \/ remove_recent_view(1, "blog")
    \/ clear_recent_views
    \/ \E kind \in Kinds : get_published(kind)
    \/ \E kind \in Kinds : get_admin(kind)
    \/ \E kind \in Kinds, data \in CreateBodies : create(kind, data)
    \/ \E kind \in Kinds, id \in ContentIds, data \in UpdateBodies :
           update(kind, id, data)
    \/ \E kind \in Kinds, id \in ContentIds : delete(kind, id)

Spec == Init /\ [][Next]_vars

-----------------------------------------------------------------------------
\* SpecContent: the content lists while time passes between the writes.

ListCreateBodies ==
    {ContentBody("t1", "s", "c", status, Absent, Absent) : status \in {"draft", "published"}}

NextContent ==
    \/ \E id_token \in {"tok_u1", "tok_a1"} : session_login(id_token)
    \/ logout
    \/ \E kind \in Kinds, data \in ListCreateBodies : create(kind, data)
    \/ \E kind \in Kinds : get_published(kind)
    \/ \E kind \in Kinds : get_admin(kind)
    \/ Tick

SpecContent == Init /\ [][NextContent]_vars

-----------------------------------------------------------------------------
\* SpecRead: reads of single documents, drafts among them, by every caller.

NextRead ==
    \/ \E id_token \in {"tok_u1", "tok_a1"} : session_login(id_token)
    \/ logout
    \/ \E kind \in Kinds, data \in ListCreateBodies : create(kind, data)
    \/ \E kind \in Kinds, id \in ContentIds : get_single(kind, id, "none")

SpecRead == Init /\ [][NextRead]_vars

-----------------------------------------------------------------------------
\* SpecTrack: the recent-views routes and the content reads that feed them,
\* with store faults in the tracker and u1's users document deleted out of
\* band. The admin publishes content and reads none; a track-view request
\* names the falsy id.

TrackCreateBody == ContentBody("t1", "s", "c", "published", Absent, Absent)

TrackBodies == {TrackBody("blog", 0, "t1", Absent, Absent, Url("blog", 0))}

RemoveKeys == {<<1, "blog">>, <<1, "recipe">>, <<0, "blog">>, <<NoId, Absent>>}

NextTrack ==
    \/ \E id_token \in Tokens : session_login(id_token)
    \/ logout
    \/ \E kind \in Kinds : create(kind, TrackCreateBody)
    \/ \E kind \in Kinds, id \in ContentIds, fault \in StoreFaults :
           session.uid # "a1" /\ get_single(kind, id, fault)
    \/ \E data \in TrackBodies, fault \in StoreFaults :
           session.uid # "a1" /\ track_user_view(data, fault)
    \/ get_user_recent_views
    \/ \E k \in RemoveKeys : remove_recent_view(k[1], k[2])
    \/ clear_recent_views
    \/ user_document_deleted("u1")

SpecTrack == Init /\ [][NextTrack]_vars

-----------------------------------------------------------------------------
\* SpecWrite: the admin creates and updates blogs and recipes while time
\* passes. The create bodies lack each required field in turn, as a missing
\* key and as an empty string; the bodies carry values no form of the site
\* sends as well (a status "archived", an empty title in an update).

RequiredFields == {"title", "shortDesc", "content", "status"}

ValidBody == ContentBody("t1", "s", "c", "draft", Absent, Absent)

WriteCreateBodies ==
    {ValidBody,
     [ValidBody EXCEPT !.status = "archived"],
     ContentBody(Absent, Absent, Absent, Absent, Absent, Absent)}
    \cup {[ValidBody EXCEPT ![f] = v] : f \in RequiredFields, v \in {Absent, ""}}

WriteUpdateBodies ==
    {ContentBody("t2", Absent, Absent, Absent, Absent, Absent),
     ContentBody("", Absent, Absent, Absent, Absent, Absent),
     ContentBody(Absent, Absent, Absent, "published", Absent, "i2"),
     ContentBody(Absent, Absent, Absent, Absent, Absent, Absent)}

NextWrite ==
    \/ session_login("tok_a1")
    \/ logout
    \/ \E kind \in Kinds, data \in WriteCreateBodies : create(kind, data)
    \/ \E kind \in Kinds, id \in ContentIds, data \in WriteUpdateBodies :
           update(kind, id, data)
    \/ Tick

SpecWrite == Init /\ [][NextWrite]_vars

-----------------------------------------------------------------------------
\* SpecRace: u1's browser has two track-view requests in flight; the store
\* calls of the two interleave in every order.

RaceBodies ==
    {TrackBody("blog", 1, "t1", Absent, Absent, Url("blog", 1)),
     TrackBody("blog", 2, "t1", Absent, Absent, Url("blog", 2)),
     TrackBody("recipe", 1, "t1", Absent, Absent, Url("recipe", 1))}

NextRace ==
    \/ session_login("tok_u1")
    \/ \E w \in Workers, data \in RaceBodies : track_get(w, data)
    \/ \E w \in Workers : track_write(w)
    \/ \E w \in Workers : track_return(w)

SpecRace == Init /\ [][NextRace]_vars

-----------------------------------------------------------------------------
\* SpecInterleave: u1, logged in, has recorded blog 1, recipe 1, ..., blog 25
\* one after the other (49 items, one short of the limit), and now has
\* track-view, remove and clear requests in flight whose store calls
\* interleave in every order.

\* The record a track-view request for the key of rank r stores.
RankedView(r) ==
    LET type == IF r % 2 = 1 THEN "recipe" ELSE "blog"
        id == r \div 2
    IN  ViewRecord(type, id, "t1", "", "", Url(type, id), Timestamp(1))

StartViews == [i \in 1..(MaxRecentViews - 1) |-> RankedView(MaxRecentViews + 1 - i)]

InitInterleave ==
    /\ users = [u \in Uids |->
                  IF u = "x1" THEN NoUser
                  ELSE [exists |-> TRUE,
                        role |-> IF u = "a1" THEN "admin" ELSE "user",
                        email |-> IF u = "a1" THEN "a1@x" ELSE "u1@x",
                        has_views |-> u = "u1",
                        recent_views |-> IF u = "u1" THEN StartViews ELSE <<>>]]
    /\ session = [uid |-> "u1", role |-> "user", email |-> "u1@x"]
    /\ content = [k \in Kinds |-> [i \in 1..MaxContentId |-> NoDoc]]
    /\ nextId = 1
    /\ clock = 1
    /\ recency = [u \in Uids |->
                    IF u = "u1" THEN [i \in 1..Len(StartViews) |-> ViewKey(StartViews[i])]
                    ELSE <<>>]
    /\ req = [Request("track_user_view", "blog", 25, Absent) EXCEPT !.title = "t1"]
    /\ resp = Response(200, TRUE, "", <<>>, 2, "true")
    /\ groups = [g \in GroupIds |-> NoGroup]
    /\ members = [g \in GroupIds |-> [u \in Uids |-> NoMember]]
    /\ messages = [g \in GroupIds |-> <<>>]
    /\ workers = [w \in Workers |-> Idle]

InterleaveBodies ==
    {TrackBody("recipe", 25, "t1", Absent, Absent, Url("recipe", 25)),
     TrackBody("blog", 26, "t1", Absent, Absent, Url("blog", 26))}

InterleaveRemoveKeys == {<<25, "recipe">>, <<1, "blog">>}

NextInterleave ==
    \/ \E w \in Workers, data \in InterleaveBodies : track_get(w, data)
    \/ \E w \in Workers : track_write(w)
    \/ \E w \in Workers, k \in InterleaveRemoveKeys : remove_get(w, k[1], k[2])
    \/ \E w \in Workers : remove_write(w)
    \/ \E w \in Workers : track_return(w)
    \/ clear_recent_views

SpecInterleave == InitInterleave /\ [][NextInterleave]_vars

-----------------------------------------------------------------------------
\* SpecGroups: the group routes, driven by one browser; the writes of
\* create_group may raise.

GroupBodies ==
    {GroupBody("g", "d", "c", Absent),
     GroupBody(Absent, "d", "c", Absent),
     GroupBody("g", "d", "", Absent),
     GroupBody(Absent, Absent, Absent, Absent)}

MessageTexts == {Absent, "  ", " hi "}

NextGroups ==
    \/ \E id_token \in {"tok_u1", "tok_a1"} : session_login(id_token)
    \/ logout
    \/ \E data \in GroupBodies, fault \in GroupFaults : create_group(data, fault)
    \/ \E group_id \in GroupIds : get_group(group_id)
    \/ \E group_id \in GroupIds : join_group(group_id)
    \/ \E group_id \in GroupIds, text \in MessageTexts : send_message(group_id, text)

SpecGroups == Init /\ [][NextGroups]_vars

-----------------------------------------------------------------------------
\* Properties.

Protected ==
    PageHandlers \cup
    {"get_user_data", "track_user_view", "get_user_recent_views", "remove_recent_view",
     "clear_recent_views", "get_admin_blogs", "create_blog", "update_blog",
     "delete_blog", "get_admin_recipes", "create_recipe", "update_recipe",
     "delete_recipe", "create_group", "get_group", "join_group", "send_message"}

SingleReads == {"get_single_blog", "get_single_recipe"}

\* The position of key k in keys, 0 when it is not there.
Position(keys, k) ==
    IF \E p \in 1..Len(keys) : keys[p] = k
    THEN CHOOSE p \in 1..Len(keys) : keys[p] = k
    ELSE 0

Matches(views, type, id) == {i \in 1..Len(views) : views[i].type = type /\ views[i].id = id}

\* C1: whatever record, remove and clear requests a user has made one at a
\* time, the stored list has at most 50 entries, no two entries with the same
\* (type, id), and its entries stand in the order of their last record call,
\* most recent first.
C1_BoundedDistinctByRecency ==
    \A u \in Uids :
        LET views == stored_views(users[u])
            n == Len(views)
        IN  /\ n <= 50
            /\ Cardinality({ViewKey(views[i]) : i \in 1..n}) = n
            /\ \A i \in 1..n : Position(recency[u], ViewKey(views[i])) > 0
            /\ \A i \in 1..(n - 1) :
                   Position(recency[u], ViewKey(views[i]))
                       < Position(recency[u], ViewKey(views[i + 1]))

\* A full list after an eviction, with blog 1 recorded again under its new
\* title at the front.
C1_Witness ==
    LET views == stored_views(users["u1"]) IN
    /\ Len(views) = 50
    /\ Len(recency["u1"]) > 50
    /\ views[1].type = "blog" /\ views[1].id = 1 /\ views[1].title = "t2"
    /\ req.handler = "track_user_view"

\* The caller passes the gate of a route: a session exists and, when the
\* route names a role, the session has that role.
Allowed(handler) ==
    /\ session.uid # Absent
    /\ RequiredRole(handler) = Absent \/ session.role = RequiredRole(handler)

\* C2: on a route behind the gate the handler body runs only for a session
\* with the required role. Without a session the request is answered by the
\* redirect to login, with a session of another role by 403, and in both
\* cases the handler makes no store call and the store and the session stay
\* as they were.
C2_GateBeforeBody ==
    [][req'.handler \in Protected =>
          /\ session.uid = Absent => resp' = Denied("redirect")
          /\ (session.uid # Absent /\ ~Allowed(req'.handler)) => resp' = Denied("forbidden")
          /\ ~Allowed(req'.handler) =>
                 /\ resp'.status \in {302, 403}
                 /\ resp'.calls = 0
                 /\ UNCHANGED <<users, content, nextId, session>>
          /\ resp'.status \notin {302, 403} => Allowed(req'.handler)]_vars

\* A user-role session asked to delete an existing blog and got 403.
C2_Witness ==
    /\ req.handler = "delete_blog"
    /\ resp.status = 403
    /\ session.uid = "u1"
    /\ content["blog"][req.id].exists

\* C3: the session changes only by a successful login or a logout. A login
\* whose token is missing, empty, rejected by the identity service or names a
\* uid without users document answers 400 and leaves the session and the
\* users collection as they were; any other login answers 200 and sets the
\* session to the verified uid, the document's role ("user" when it has none)
\* and the document's email.
C3_LoginSetsSession ==
    [][/\ session' # session =>
              \/ req'.handler = "session_login" /\ resp'.status = 200
              \/ req'.handler = "logout"
       /\ req'.handler = "session_login" =>
              LET uid == verify_id_token(req'.token)
                  fails == \/ req'.token \in {Absent, ""}
                           \/ uid = Absent
                           \/ ~users[uid].exists
              IN  /\ users' = users
                  /\ fails => resp'.status = 400 /\ session' = session
                  /\ ~fails =>
                         /\ resp'.status = 200
                         /\ session'.uid = uid
                         /\ session'.email = users[uid].email
                         /\ session'.role = IF users[uid].role = Absent THEN "user"
                                             ELSE users[uid].role]_vars

\* u1 logged in on a users document that has no role.
C3_Witness ==
    /\ req.handler = "session_login"
    /\ resp.status = 200
    /\ session.uid = "u1"
    /\ users["u1"].exists /\ users["u1"].role = Absent
    /\ session.role = "user"

ItemIds(items) == {items[i].id : i \in 1..Len(items)}

\* C4: the public list of a kind carries exactly the documents of that kind
\* whose status is "published", each once; the admin list carries every
\* document of the kind, each once.
C4_PublicListsPublished ==
    /\ req.handler \in {"get_blogs", "get_recipes"} =>
           /\ resp.status = 200
           /\ ItemIds(resp.items) =
                  {id \in ContentIds : /\ content[req.kind][id].exists
                                        /\ content[req.kind][id].status = "published"}
           /\ Cardinality(ItemIds(resp.items)) = Len(resp.items)
           /\ \A i \in 1..Len(resp.items) : resp.items[i].data.status = "published"
    /\ (req.handler \in {"get_admin_blogs", "get_admin_recipes"} /\ resp.status = 200) =>
           /\ ItemIds(resp.items) = {id \in ContentIds : content[req.kind][id].exists}
           /\ Cardinality(ItemIds(resp.items)) = Len(resp.items)

\* The public list of blogs, asked without a session, while a draft blog and
\* a published blog are stored.
C4_Witness ==
    /\ req.handler = "get_blogs"
    /\ session.uid = Absent
    /\ Len(resp.items) = 1
    /\ \E id \in ContentIds : content["blog"][id].exists /\ content["blog"][id].status = "draft"

\* C5: a response to a caller without the admin role carries no document
\* whose status is not "published".
C5_NoDraftToNonAdmin ==
    (req.handler \in SingleReads \cup {"get_blogs", "get_recipes"} /\ session.role # "admin") =>
        \A i \in 1..Len(resp.items) : resp.items[i].data.status = "published"

\* C6: the blogs and recipes collections change only in a create, update or
\* delete request under a session whose role is admin.
C6_ContentChangesOnlyByAdmin ==
    [][content' # content =>
          /\ req'.handler \in {"create_blog", "update_blog", "delete_blog",
                                "create_recipe", "update_recipe", "delete_recipe"}
          /\ session.uid # Absent
          /\ session.role = "admin"]_vars

\* The admin deleted a recipe while a blog stays.
C6_Witness ==
    /\ req.handler = "delete_recipe"
    /\ resp.status = 200
    /\ session.role = "admin"
    /\ \E id \in ContentIds : content["blog"][id].exists

\* C7: when a caller with a session reads an existing published blog or
\* recipe and the tracker's store calls succeed, the response carries the
\* document and the list of the caller's recent views that follows has the
\* document's (type, id) at index 0.
C7_ReadRecordsViewAtFront ==
    (/\ req.handler \in SingleReads
     /\ session.uid # Absent
     /\ content[req.kind][req.id].exists
     /\ content[req.kind][req.id].status = "published"
     /\ resp.tracked # "false") =>
        LET list == recent_views_body(users[session.uid]) IN
        /\ resp.status = 200
        /\ Len(resp.items) = 1
        /\ resp.items[1].kind = req.kind /\ resp.items[1].id = req.id
        /\ Len(list) >= 1
        /\ list[1].type = req.kind /\ list[1].id = req.id
        /\ Cardinality(Matches(list, req.kind, req.id)) = 1

\* u1 read a recipe whose view moved in front of two older entries.
C7_Witness ==
    /\ req.handler = "get_single_recipe"
    /\ resp.status = 200
    /\ resp.tracked = "true"
    /\ session.uid = "u1"
    /\ Len(stored_views(users["u1"])) = 3

\* C8: a read of an existing blog or recipe answers 200 with the document,
\* the same response whether the tracker succeeded, failed or was not called.
C8_TrackerFailureKeepsResponse ==
    (req.handler \in SingleReads /\ content[req.kind][req.id].exists) =>
        /\ resp.status = 200
        /\ resp.success
        /\ resp.error = ""
        /\ resp.items = <<Item(req.kind, req.id, content[req.kind][req.id])>>

\* A read by u1 whose tracker call failed.
C8_Witness ==
    /\ req.handler = "get_single_blog"
    /\ session.uid = "u1"
    /\ resp.tracked = "false"
    /\ resp.status = 200
    /\ Len(resp.items) = 1

\* A remove request that names a type and an id: neither is empty or missing.
NamesView(request) ==
    /\ request.handler = "remove_recent_view"
    /\ request.kind \notin {Absent, ""}
    /\ request.id \notin {NoId, 0}

\* C9 as claimed: every remove of a (type, id) by a caller with a session
\* succeeds, also when the caller has no users document, and the list that
\* follows has no entry with that (type, id).
C9_RemoveAlwaysSucceeds ==
    (NamesView(req) /\ session.uid # Absent) =>
        /\ resp.status = 200
        /\ Matches(recent_views_body(users[session.uid]), req.kind, req.id) = {}

\* C9 as amended: a remove of a (type, id) by a caller whose users document
\* exists succeeds and stores the list without its entries of that (type, id),
\* the other entries in their order (the list as it was when it has no such
\* entry or the document has no list); the list that follows has no such
\* entry. When the caller has no users document the remove answers 404 and
\* writes nothing.
C9_RemoveFiltersOrNotFound ==
    [][(NamesView(req') /\ session.uid # Absent) =>
          LET uid == session.uid
              before == stored_views(users[uid])
              after == stored_views(users'[uid])
              kept == {i \in 1..Len(before) : i \notin Matches(before, req'.kind, req'.id)}
          IN  IF users[uid].exists
              THEN /\ resp'.status = 200
                   /\ Matches(recent_views_body(users'[uid]), req'.kind, req'.id) = {}
                   /\ Len(after) = Cardinality(kept)
                   /\ \A i \in 1..Len(after) :
                          \E j \in kept :
                              /\ after[i] = before[j]
                              /\ Cardinality({k \in kept : k < j}) = i - 1
                   /\ Matches(before, req'.kind, req'.id) = {} => after = before
                   /\ \A u \in Uids \ {uid} : users'[u] = users[u]
              ELSE /\ resp'.status = 404
                   /\ users' = users]_vars

\* u1 removed blog 1 and two other entries stay.
C9_Witness ==
    /\ req.handler = "remove_recent_view"
    /\ req.kind = "blog" /\ req.id = 1
    /\ resp.status = 200
    /\ session.uid = "u1"
    /\ Len(stored_views(users["u1"])) = 2
    /\ Position(recency["u1"], <<"blog", 1>>) = 0

\* C10: a clear by a caller with a session succeeds in every state, and the
\* list that follows is empty.
C10_ClearAlwaysSucceeds ==
    (req.handler = "clear_recent_views" /\ session.uid # Absent) =>
        /\ resp.status = 200
        /\ recent_views_body(users[session.uid]) = <<>>

\* C11: a join of an existing group by a caller who is not a member answers
\* 200 and adds the caller's member document and no other; member documents
\* and groups never go away, so the caller's next join of that group finds the
\* document: it answers 400 "Already a member" and leaves the members (the
\* set and the count) as they were. A join of a group that does not exist
\* answers 404 and adds nothing.
C11_SecondJoinAlreadyMember ==
    [][/\ \A g \in GroupIds :
              /\ groups[g].exists => groups'[g].exists
              /\ \A u \in Uids : members[g][u].exists => members'[g][u].exists
       /\ (req'.handler = "join_group" /\ session.uid # Absent) =>
              LET g == req'.id
                  u == session.uid
              IN  IF ~groups[g].exists
                  THEN resp'.status = 404 /\ members' = members
                  ELSE IF members[g][u].exists
                  THEN /\ resp'.status = 400
                       /\ resp'.error = "Already a member"
                       /\ members' = members
                       /\ Cardinality({v \in Uids : members'[g][v].exists}) = member_count(g)
                  ELSE /\ resp'.status = 200
                       /\ members'[g][u].exists
                       /\ members'[g][u].userId = u
                       /\ \A h \in GroupIds, v \in Uids :
                              <<h, v>> # <<g, u>> => members'[h][v] = members[h][v]
                       /\ Cardinality({v \in Uids : members'[g][v].exists})
                              = member_count(g) + 1]_vars

\* u1 joined a1's group and asked to join it again.
C11_Witness ==
    /\ req.handler = "join_group"
    /\ resp.status = 400
    /\ resp.error = "Already a member"
    /\ session.uid = "u1"
    /\ groups[req.id].createdBy = "a1"
    /\ member_count(req.id) = 2

\* C12: a group's log changes only by send_message appending one message of
\* the session's user, who has a member document in that group at that time;
\* a send_message by a caller with a session and no member document answers
\* 403 and leaves every log as it was. So every message in a log has the
\* userId of a member of its group.
C12_OnlyMembersPost ==
    /\ [](\A g \in GroupIds : \A i \in 1..Len(messages[g]) :
              members[g][messages[g][i].userId].exists)
    /\ [][/\ messages' # messages =>
                 /\ req'.handler = "send_message"
                 /\ session.uid # Absent
                 /\ members[req'.id][session.uid].exists
                 /\ Len(messages'[req'.id]) = Len(messages[req'.id]) + 1
                 /\ SubSeq(messages'[req'.id], 1, Len(messages[req'.id])) = messages[req'.id]
                 /\ messages'[req'.id][Len(messages'[req'.id])].userId = session.uid
                 /\ \A g \in GroupIds \ {req'.id} : messages'[g] = messages[g]
          /\ (/\ req'.handler = "send_message"
              /\ session.uid # Absent
              /\ ~members[req'.id][session.uid].exists) =>
                 /\ resp'.status = 403
                 /\ messages' = messages]_vars

\* u1, not a member, was refused in a group whose log holds a message.
C12_Witness ==
    /\ req.handler = "send_message"
    /\ resp.status = 403
    /\ session.uid = "u1"
    /\ groups[req.id].exists
    /\ ~members[req.id]["u1"].exists
    /\ Len(messages[req.id]) >= 1

\* C13: a create of a blog or recipe by the admin whose body lacks one of
\* title, shortDesc, content and status, or holds it as the empty string,
\* answers 400 and makes no store call: the blogs and recipes collections
\* and the id counter stay as they were.
C13_InvalidCreateWritesNothing ==
    [][(/\ req'.handler \in {"create_blog", "create_recipe"}
        /\ Allowed(req'.handler)
        /\ \E f \in RequiredFields : req'.data[f] \in {Absent, ""}) =>
           /\ resp'.status = 400
           /\ ~resp'.success
           /\ resp'.calls = 0
           /\ content' = content
           /\ nextId' = nextId]_vars

\* The admin's create of a blog without content was refused while a document
\* is stored.
C13_Witness ==
    /\ req.handler = "create_blog"
    /\ req.data.title = "t1" /\ req.data.content = Absent
    /\ resp.status = 400
    /\ session.role = "admin"
    /\ \E kind \in Kinds, id \in ContentIds : content[kind][id].exists

\* C14: a logout answers with the redirect to login and leaves no session,
\* whatever the session was, and touches nothing in the store; with no session
\* it leaves the state as it was, so a second logout changes nothing. While
\* there is no session every request to a route behind the gate is answered
\* by the redirect to login and changes nothing, and only a login that
\* answers 200 makes a session.
C14_LogoutDiscardsSession ==
    /\ [](session.uid = Absent => session = NoSession)
    /\ [][/\ req'.handler = "logout" =>
                 /\ session' = NoSession
                 /\ resp'.status = 302
                 /\ UNCHANGED <<users, content, nextId, community>>
          /\ (req'.handler = "logout" /\ session = NoSession) =>
                 UNCHANGED <<session, users, content, nextId, clock, community>>
          /\ (session = NoSession /\ req'.handler \in Protected) =>
                 /\ resp' = Denied("redirect")
                 /\ UNCHANGED <<session, users, content, nextId, community>>
          /\ (session.uid = Absent /\ session'.uid # Absent) =>
                 /\ req'.handler = "session_login"
                 /\ resp'.status = 200]_vars

\* The admin had created a blog; after the logout a create is answered by
\* the redirect to login.
C14_Witness ==
    /\ req.handler = "create_blog"
    /\ resp = Denied("redirect")
    /\ session = NoSession
    /\ \E id \in ContentIds : content["blog"][id].exists

\* C15: when a track-view request writes its list while another request of
\* the same user, which read the same list and recorded another (type, id)
\* that the list did not hold, has written and reported success, the request
\* reports success too and the list it stores is the one it read with its own
\* item in front: the other request's item is not in it.
C15_LaterWriteDiscardsEarlier ==
    [][\A w \in Workers, v \in Workers :
          (/\ w # v
           /\ workers[w].pc = "read" /\ workers'[w].pc = "done"
           /\ workers[v].pc = "done" /\ workers[v].result = "true"
           /\ workers[v].uid = workers[w].uid
           /\ workers[w].exists /\ workers[v].exists
           /\ workers[v].current_views = workers[w].current_views
           /\ ViewKey(workers[v].view_data) # ViewKey(workers[w].view_data)
           /\ Matches(workers[w].current_views, workers[v].view_data.type,
                      workers[v].view_data.id) = {}) =>
              LET after == stored_views(users'[workers[w].uid]) IN
              /\ workers'[w].result = "true"
              /\ resp'.success
              /\ after = tracked_views(workers[w].current_views, workers[w].view_data)
              /\ Matches(after, workers[v].view_data.type, workers[v].view_data.id) = {}]_vars

\* The lost update: both requests read the list <<recipe 1>>, both wrote and
\* reported success, and the stored list holds blog 2 and not blog 1.
C15_Witness ==
    /\ workers["w1"].pc = "done" /\ workers["w1"].result = "true"
    /\ workers["w2"].pc = "done" /\ workers["w2"].result = "true"
    /\ Len(workers["w1"].current_views) = 1
    /\ workers["w1"].current_views = workers["w2"].current_views
    /\ ViewKey(workers["w1"].view_data) = <<"blog", 1>>
    /\ ViewKey(workers["w2"].view_data) = <<"blog", 2>>
    /\ Len(stored_views(users["u1"])) = 2
    /\ Matches(stored_views(users["u1"]), "blog", 2) = {1}
    /\ Matches(stored_views(users["u1"]), "blog", 1) = {}

\* C16: a track-view request for a (type, id) the caller's list holds, under
\* another title, leaves the list as long as it was, with one entry of that
\* (type, id): at index 0, carrying the request's title. The other entries
\* follow in the order they had.
C16_RerecordMovesToFront ==
    [][(/\ req'.handler = "track_user_view"
        /\ resp'.tracked = "true"
        /\ \E i \in Matches(stored_views(users[session.uid]), req'.kind, req'.id) :
               stored_views(users[session.uid])[i].title # req'.title) =>
           LET before == stored_views(users[session.uid])
               after == stored_views(users'[session.uid])
               old == CHOOSE i \in Matches(before, req'.kind, req'.id) : TRUE
           IN  /\ Len(after) = Len(before)
               /\ Matches(after, req'.kind, req'.id) = {1}
               /\ after[1].title = req'.title
               /\ \A i \in 2..Len(after) :
                      after[i] = before[IF i <= old THEN i - 1 ELSE i]]_vars

\* Blog 1, recorded as "t1" and then two more items after it, has come to the
\* front of the three under the title "t2".
C16_Witness ==
    LET views == stored_views(users["u1"]) IN
    /\ req.handler = "track_user_view"
    /\ req.title = "t2"
    /\ resp.tracked = "true"
    /\ Len(views) = 3
    /\ ViewKey(views[1]) = <<"blog", 1>> /\ views[1].title = "t2"
    /\ ViewKey(views[2]) = <<"blog", 2>>
    /\ ViewKey(views[3]) = <<"recipe", 1>>

\* C17: a track-view request for a (type, id) the caller's list does not hold
\* puts its item in front of the list as it was; when the list held 50
\* entries, the first 49 follow the new item and the last one, the one
\* recorded longest ago, is gone: 51 items recorded one after the other from
\* the empty list leave the 50 recorded last, most recent first.
C17_FiftyFirstEvictsOldest ==
    [][(/\ req'.handler = "track_user_view"
        /\ resp'.tracked = "true"
        /\ Matches(stored_views(users[session.uid]), req'.kind, req'.id) = {}) =>
           LET before == stored_views(users[session.uid])
               after == stored_views(users'[session.uid])
           IN  /\ ViewKey(after[1]) = <<req'.kind, req'.id>>
               /\ Len(before) < 50 => after = <<after[1]>> \o before
               /\ Len(before) = 50 =>
                      /\ Len(after) = 50
                      /\ after = <<after[1]>> \o SubSeq(before, 1, 49)
                      /\ Matches(after, before[50].type, before[50].id) = {}]_vars

\* Blog 1, recipe 1, ..., blog 26 were recorded in this order from the empty
\* list, 51 items: the list holds the last 50 of them, blog 26 first, and not
\* blog 1.
C17_Witness ==
    LET views == stored_views(users["u1"]) IN
    /\ req.handler = "track_user_view"
    /\ Len(recency["u1"]) = 51
    /\ recency["u1"][51] = <<"blog", 1>>
    /\ \A i \in 1..51 : KeyRank(recency["u1"][i][1], recency["u1"][i][2]) = 53 - i
    /\ Len(views) = 50
    /\ \A i \in 1..50 : ViewKey(views[i]) = recency["u1"][i]
    /\ Matches(views, "blog", 1) = {}

\* C18: every view record stored in a users document has a viewedAt that is
\* a server timestamp.
C18_StoredViewsHaveServerTime ==
    \A u \in Uids :
        \A i \in 1..Len(stored_views(users[u])) :
            stored_views(users[u])[i].viewedAt.is = "timestamp"

BodyFields == {"title", "shortDesc", "content", "status", "date", "image"}

Updates == {"update_blog", "update_recipe"}

C20_StoredContentWellFormed ==
    \A kind \in Kinds, id \in ContentIds :
        content[kind][id].exists =>
            /\ content[kind][id].status \in {"draft", "published"}
            /\ content[kind][id].title \notin {Absent, ""}
            /\ content[kind][id].shortDesc \notin {Absent, ""}
            /\ content[kind][id].content \notin {Absent, ""}

\* C21: every group that exists has a member document of its creator.
C21_CreatorIsMember ==
    \A g \in GroupIds :
        groups[g].exists => members[g][groups[g].createdBy].exists

\* C22: whatever track-view, remove and clear requests of a user interleave,
\* every list stored for the user has at most 50 entries and no two entries
\* with the same (type, id); so has every list a request in flight has read.
C22_RaceKeepsBoundAndDistinct ==
    /\ \A u \in Uids :
           LET views == stored_views(users[u]) IN
           /\ Len(views) <= 50
           /\ Cardinality({ViewKey(views[i]) : i \in 1..Len(views)}) = Len(views)
    /\ \A w \in Workers :
           LET views == workers[w].current_views IN
           /\ Len(views) <= 50
           /\ Cardinality({ViewKey(views[i]) : i \in 1..Len(views)}) = Len(views)

\* A track-view request for blog 26 wrote a list of 50 entries from the 49 it
\* had read, over the list of another request that had read the same 49 and
\* recorded recipe 25: the update of recipe 25 is lost and the list is full.
C22_Witness ==
    \E w \in Workers, v \in Workers :
        /\ w # v
        /\ workers[w].pc = "done" /\ workers[w].op = "record" /\ workers[w].result = "true"
        /\ workers[v].pc = "done" /\ workers[v].op = "record" /\ workers[v].result = "true"
        /\ Len(workers[w].current_views) = 49
        /\ workers[v].current_views = workers[w].current_views
        /\ ViewKey(workers[w].view_data) = <<"blog", 26>>
        /\ ViewKey(workers[v].view_data) = <<"recipe", 25>>
        /\ Len(stored_views(users["u1"])) = 50
        /\ ViewKey(stored_views(users["u1"])[1]) = <<"blog", 26>>
        /\ Matches(stored_views(users["u1"]), "recipe", 25) = {}

====
